---- MODULE Spec2Model ----
(***************************************************************************)
(* The call-session conversation state machine of the process-call-message *)
(* edge function (src/agent_carousel.tsx, lines 102-395).                  *)
(*                                                                         *)
(* One call_sessions row is modelled (variable session), together with the *)
(* request last handled (req) and the response it got (resp).  Spec serves *)
(* the requests one after the other.  SpecConcurrent lets requests         *)
(* overlap: a request reads the row (inflight holds what it read) and      *)
(* writes later; completed lists the requests in the order of their writes.*)
(* SpecService serves whole requests to a session that has a history: the  *)
(* sessionId may match no row, the message may be missing from the payload *)
(* and the update may fail.  SpecRetry runs the retry wrappers of the       *)
(* calling layer (src/HeroSection.tsx, src/formSubmissionService.ts,       *)
(* src/FormSubmissionScreen.tsx), each called once (variable retry).       *)
(*                                                                         *)
(* Strings.  A JavaScript string is modelled by the sequence of pieces     *)
(* that split(' ') yields for it: "John Smith" is <<"John", "Smith">>,     *)
(* the empty string is <<"">>, a single blank is <<"", "">> and            *)
(* "John  Smith" (two blanks) is <<"John", "", "Smith">>.  The pieces are  *)
(* taken from a fixed vocabulary whose regular-expression and substring    *)
(* behaviour is tabulated below.                                           *)
(*                                                                         *)
(* Reply texts are modelled by their template and the value substituted    *)
(* into it.  The phrases that Math.random picks (the filler of             *)
(* HUMAN_FILLERS, the acknowledgment of INTERRUPTION_RESPONSES) are slots  *)
(* of the template: the model records that a reply carries one, not which. *)
(***************************************************************************)
EXTENDS Integers, Sequences, FiniteSets, TLC

VARIABLES session, req, resp, served, inflight, completed, retry

vars == <<session, req, resp, served, inflight, completed, retry>>

(***************************************************************************)
(* Bounds                                                                  *)
(***************************************************************************)
\* Requests served in one behaviour.
MaxRequests == 5

\* Requests that may be between their read and their write at one time, and
\* requests served in one behaviour, when requests overlap.
MaxInFlight == 2

MaxOverlappingRequests == 3

(***************************************************************************)
(* Strings                                                                 *)
(***************************************************************************)
EmptyString == <<"">>

\* The messages a client sends, as split(' ') sees them.
Corpus ==
  { <<"john@example.com">>,
    <<"john@example.com", "555-123-4567">>,
    <<"Yes,", "that's", "correct">>,
    <<"sure">>,
    <<"", "">>,
    <<"", "John", "Smith", "", "">>,
    <<"right,", "I", "will", "tell", "you">> }

\* String.prototype.toLowerCase on one piece of the vocabulary.
ToLowerCase(piece) ==
  CASE piece = "John" -> "john"
    [] piece = "Smith" -> "smith"
    [] piece = "Yes," -> "yes,"
    [] piece = "I" -> "i"
    [] piece = "Name" -> "name"
    [] piece = "Email" -> "email"
    [] piece = "Phone" -> "phone"
    [] OTHER -> piece

\* lower.includes(needle) for a lower-cased piece; no needle holds a blank,
\* so a needle occurs in a message exactly when it occurs in one piece.
PieceIncludes(lower, needle) ==
  <<lower, needle>> \in { <<"yes,", "yes">>, <<"correct", "correct">>,
                          <<"sure", "sure">>, <<"right,", "right">> }

\* message.toLowerCase().includes(needle)
Includes(message, needle) ==
  \E i \in 1..Len(message) : PieceIncludes(ToLowerCase(message[i]), needle)

\* message.trim(): leading and trailing blanks removed.
Trim(s) ==
  LET idx == { i \in 1..Len(s) : s[i] # "" }
  IN IF idx = {} THEN EmptyString
     ELSE SubSeq(s, CHOOSE i \in idx : \A j \in idx : i <= j,
                    CHOOSE i \in idx : \A j \in idx : i >= j)

NoMatch == <<>>

\* /\b[A-Za-z0-9._%+-]+@[A-Za-z0-9.-]+\.[A-Z|a-z]{2,}\b/ on one piece: the
\* matched text, or NoMatch.  Neither pattern matches a blank, so a match
\* lies within one piece.
EmailIn(piece) == IF piece = "john@example.com" THEN <<piece>> ELSE NoMatch

\* /\b\d{3}[-.]?\d{3}[-.]?\d{4}\b/ on one piece.
PhoneIn(piece) == IF piece = "555-123-4567" THEN <<piece>> ELSE NoMatch

\* message.match(email pattern): the first match in the message, or NoMatch
\* (null).
EmailMatch(message) ==
  LET hits == { i \in 1..Len(message) : EmailIn(message[i]) # NoMatch }
  IN IF hits = {} THEN NoMatch
     ELSE EmailIn(message[CHOOSE i \in hits : \A j \in hits : i <= j])

\* message.match(phone pattern)
PhoneMatch(message) ==
  LET hits == { i \in 1..Len(message) : PhoneIn(message[i]) # NoMatch }
  IN IF hits = {} THEN NoMatch
     ELSE PhoneIn(message[CHOOSE i \in hits : \A j \in hits : i <= j])

(***************************************************************************)
(* Configuration and the session record                                    *)
(***************************************************************************)
Field(id, label) == [id |-> id, label |-> label]
Question(id, question) == [id |-> id, question |-> question]

NameField == Field("name", "Name")
EmailField == Field("email", "Email")
PhoneField == Field("phone", "Phone")

\* The agent configurations sessions are created with: core_fields and
\* additional_questions of the row.
Configs ==
  { [core |-> <<>>, questions |-> <<>>],
    [core |-> <<NameField>>, questions |-> <<>>],
    [core |-> <<NameField, EmailField, PhoneField>>, questions |-> <<>>],
    [core |-> <<NameField>>, questions |-> <<Question("q1", "budget?")>>] }

Steps == <<"greeting", "collecting", "confirming", "booking", "complete">>

\* collected_data: a function from the keys present to their values.
EmptyData == [k \in {} |-> EmptyString]

Put(data, key, value) ==
  [k \in DOMAIN data \cup {key} |-> IF k = key THEN value ELSE data[k]]

\* !data[key]: the key is absent or its value is the empty string.
Falsy(data, key) == key \notin DOMAIN data \/ data[key] = EmptyString

(***************************************************************************)
(* Readiness predicates                                                    *)
(***************************************************************************)
\* needsMoreData that looks at the core fields only.
needsMoreData_CoreOnly(context) ==
  \E i \in 1..Len(context.coreFields) :
    Falsy(context.collectedData, context.coreFields[i].id)

needsMoreData(context) ==
  LET coreComplete ==
        \A i \in 1..Len(context.coreFields) :
          ~Falsy(context.collectedData, context.coreFields[i].id)
      additionalComplete ==
        \A i \in 1..Len(context.additionalQuestions) :
          ~Falsy(context.collectedData, context.additionalQuestions[i].id)
  IN ~coreComplete \/ ~additionalComplete

\* canOfferBooking without the test of the step.
canOfferBooking_IgnoresStep(context) == ~needsMoreData(context)

canOfferBooking(context) ==
  ~needsMoreData(context) /\ context.currentStep # "complete"

(***************************************************************************)
(* Field extractor                                                         *)
(***************************************************************************)
ShortMessageWords == 4

\* The collectedData that extractAndStoreData leaves in the context.
extractAndStoreData(context, message) ==
  LET words == [i \in 1..Len(message) |-> ToLowerCase(message[i])]
      emailMatch == EmailMatch(message)
      phoneMatch == PhoneMatch(message)
      d0 == context.collectedData
      d1 == IF emailMatch # NoMatch THEN Put(d0, "email", emailMatch) ELSE d0
      d2 == IF phoneMatch # NoMatch THEN Put(d1, "phone", phoneMatch) ELSE d1
      missing == { i \in 1..Len(context.coreFields) :
                     Falsy(d2, context.coreFields[i].id) }
  IN IF Len(words) <= ShortMessageWords /\ emailMatch = NoMatch
        /\ phoneMatch = NoMatch /\ missing # {}
     THEN Put(d2, context.coreFields[CHOOSE i \in missing :
                                        \A j \in missing : i <= j].id,
              Trim(message))
     ELSE d2

(***************************************************************************)
(* Step handlers: each yields the reply, the next step and the             *)
(* collectedData it leaves in the context.                                 *)
(***************************************************************************)
\* prefix: "" or the list the reply's opening phrase is drawn from.
Reply(template, arg) == [prefix |-> "", template |-> template, arg |-> arg]

generateGreeting == Reply("greeting", "")

\* handleDataCollection that forgets to advance once everything is collected.
handleDataCollection_NoAdvance(context, message) ==
  LET IsMissing(field) ==
        \/ Falsy(context.collectedData, field.id)
        \/ Trim(context.collectedData[field.id]) = EmptyString
      missingFields == SelectSeq(context.coreFields, IsMissing)
      IsUnanswered(q) == Falsy(context.collectedData, q.id)
      unansweredQuestions == SelectSeq(context.additionalQuestions, IsUnanswered)
  IN IF Len(missingFields) > 0
     THEN [response |-> Reply("askField", ToLowerCase(missingFields[1].label)),
           nextStep |-> "collecting",
           collectedData |-> extractAndStoreData(context, message)]
     ELSE IF Len(unansweredQuestions) > 0
     THEN [response |-> Reply("askQuestion", unansweredQuestions[1].question),
           nextStep |-> "collecting",
           collectedData |-> context.collectedData]
     ELSE [response |-> Reply("confirmSummary", ""),
           nextStep |-> "collecting",
           collectedData |-> context.collectedData]

\* handleDataCollection without the check of the additional questions.
handleDataCollection_SkipQuestions(context, message) ==
  LET IsMissing(field) ==
        \/ Falsy(context.collectedData, field.id)
        \/ Trim(context.collectedData[field.id]) = EmptyString
      missingFields == SelectSeq(context.coreFields, IsMissing)
  IN IF Len(missingFields) > 0
     THEN [response |-> Reply("askField", ToLowerCase(missingFields[1].label)),
           nextStep |-> "collecting",
           collectedData |-> extractAndStoreData(context, message)]
     ELSE [response |-> Reply("confirmSummary", ""),
           nextStep |-> "confirming",
           collectedData |-> context.collectedData]

\* handleDataCollection that asks for the last missing field and question
\* instead of the first.
handleDataCollection_LastMissing(context, message) ==
  LET IsMissing(field) ==
        \/ Falsy(context.collectedData, field.id)
        \/ Trim(context.collectedData[field.id]) = EmptyString
      missingFields == SelectSeq(context.coreFields, IsMissing)
      IsUnanswered(q) == Falsy(context.collectedData, q.id)
      unansweredQuestions == SelectSeq(context.additionalQuestions, IsUnanswered)
  IN IF Len(missingFields) > 0
     THEN [response |-> Reply("askField",
                              ToLowerCase(missingFields[Len(missingFields)].label)),
           nextStep |-> "collecting",
           collectedData |-> extractAndStoreData(context, message)]
     ELSE IF Len(unansweredQuestions) > 0
     THEN [response |-> Reply("askQuestion",
                              unansweredQuestions[Len(unansweredQuestions)].question),
           nextStep |-> "collecting",
           collectedData |-> context.collectedData]
     ELSE [response |-> Reply("confirmSummary", ""),
           nextStep |-> "confirming",
           collectedData |-> context.collectedData]

\* handleDataCollection that runs the extraction on every message.
handleDataCollection_AlwaysExtracts(context, message) ==
  LET IsMissing(field) ==
        \/ Falsy(context.collectedData, field.id)
        \/ Trim(context.collectedData[field.id]) = EmptyString
      missingFields == SelectSeq(context.coreFields, IsMissing)
      IsUnanswered(q) == Falsy(context.collectedData, q.id)
      unansweredQuestions == SelectSeq(context.additionalQuestions, IsUnanswered)
  IN IF Len(missingFields) > 0
     THEN [response |-> Reply("askField", ToLowerCase(missingFields[1].label)),
           nextStep |-> "collecting",
           collectedData |-> extractAndStoreData(context, message)]
     ELSE IF Len(unansweredQuestions) > 0
     THEN [response |-> Reply("askQuestion", unansweredQuestions[1].question),
           nextStep |-> "collecting",
           collectedData |-> extractAndStoreData(context, message)]
     ELSE [response |-> Reply("confirmSummary", ""),
           nextStep |-> "confirming",
           collectedData |-> extractAndStoreData(context, message)]

handleDataCollection(context, message) ==
  LET IsMissing(field) ==
        \/ Falsy(context.collectedData, field.id)
        \/ Trim(context.collectedData[field.id]) = EmptyString
      missingFields == SelectSeq(context.coreFields, IsMissing)
      IsUnanswered(q) == Falsy(context.collectedData, q.id)
      unansweredQuestions == SelectSeq(context.additionalQuestions, IsUnanswered)
  IN IF Len(missingFields) > 0
     THEN [response |-> Reply("askField", ToLowerCase(missingFields[1].label)),
           nextStep |-> "collecting",
           collectedData |-> extractAndStoreData(context, message)]
     ELSE IF Len(unansweredQuestions) > 0
     THEN [response |-> Reply("askQuestion", unansweredQuestions[1].question),
           nextStep |-> "collecting",
           collectedData |-> context.collectedData]
     ELSE [response |-> Reply("confirmSummary", ""),
           nextStep |-> "confirming",
           collectedData |-> context.collectedData]

\* handleConfirmation that takes only "yes" for a confirmation.
handleConfirmation_YesOnly(context, message) ==
  IF Includes(message, "yes")
  THEN [response |-> Reply("offerBooking", ""), nextStep |-> "booking",
        collectedData |-> context.collectedData]
  ELSE [response |-> Reply("askCorrection", ""), nextStep |-> "collecting",
        collectedData |-> context.collectedData]

handleConfirmation(context, message) ==
  LET isConfirmed == \/ Includes(message, "yes")
                     \/ Includes(message, "correct")
                     \/ Includes(message, "right")
  IN IF isConfirmed
     THEN [response |-> Reply("offerBooking", ""), nextStep |-> "booking",
           collectedData |-> context.collectedData]
     ELSE [response |-> Reply("askCorrection", ""), nextStep |-> "collecting",
           collectedData |-> context.collectedData]

\* handleBooking that sends a client who declines back to collecting.
handleBooking_DeclineReopens(context, message) ==
  LET wantsBooking == \/ Includes(message, "yes")
                      \/ Includes(message, "sure")
                      \/ Includes(message, "book")
  IN IF wantsBooking
     THEN [response |-> Reply("bookingFollowUp", ""), nextStep |-> "complete",
           collectedData |-> context.collectedData]
     ELSE [response |-> Reply("politeClose", ""), nextStep |-> "collecting",
           collectedData |-> context.collectedData]

handleBooking(context, message) ==
  LET wantsBooking == \/ Includes(message, "yes")
                      \/ Includes(message, "sure")
                      \/ Includes(message, "book")
  IN IF wantsBooking
     THEN [response |-> Reply("bookingFollowUp", ""), nextStep |-> "complete",
           collectedData |-> context.collectedData]
     ELSE [response |-> Reply("politeClose", ""), nextStep |-> "complete",
           collectedData |-> context.collectedData]

\* The switch of processMessage with a greeting branch that runs the
\* extraction on the message.
stepResult_GreetingExtracts(context, message) ==
  CASE context.currentStep = "greeting" ->
         [response |-> generateGreeting, nextStep |-> "collecting",
          collectedData |-> extractAndStoreData(context, message)]
    [] context.currentStep = "collecting" -> handleDataCollection(context, message)
    [] context.currentStep = "confirming" -> handleConfirmation(context, message)
    [] context.currentStep = "booking" -> handleBooking(context, message)
    [] OTHER ->
         [response |-> Reply("notSure", ""), nextStep |-> context.currentStep,
          collectedData |-> context.collectedData]

\* The switch of processMessage with a default branch that reopens the
\* collection.
stepResult_DefaultReopens(context, message) ==
  CASE context.currentStep = "greeting" ->
         [response |-> generateGreeting, nextStep |-> "collecting",
          collectedData |-> context.collectedData]
    [] context.currentStep = "collecting" -> handleDataCollection(context, message)
    [] context.currentStep = "confirming" -> handleConfirmation(context, message)
    [] context.currentStep = "booking" -> handleBooking(context, message)
    [] OTHER ->
         [response |-> Reply("notSure", ""), nextStep |-> "collecting",
          collectedData |-> context.collectedData]

\* The switch of processMessage.
stepResult(context, message) ==
  CASE context.currentStep = "greeting" ->
         [response |-> generateGreeting, nextStep |-> "collecting",
          collectedData |-> context.collectedData]
    [] context.currentStep = "collecting" -> handleDataCollection(context, message)
    [] context.currentStep = "confirming" -> handleConfirmation(context, message)
    [] context.currentStep = "booking" -> handleBooking(context, message)
    [] OTHER ->
         [response |-> Reply("notSure", ""), nextStep |-> context.currentStep,
          collectedData |-> context.collectedData]

(***************************************************************************)
(* The request handler                                                     *)
(***************************************************************************)
\* The CallContext built from the row read.
Context(row) ==
  [collectedData |-> row.collected_data,
   currentStep |-> row.current_step,
   coreFields |-> row.core_fields,
   additionalQuestions |-> row.additional_questions,
   interruptionCount |-> row.interruption_count,
   conversationHistory |-> row.conversation_history]

\* supabase update: the columns named in updates are overwritten.
updateSession(row, updates) ==
  [c \in DOMAIN row |-> IF c \in DOMAIN updates THEN updates[c] ELSE row[c]]

Entry(role, content) == [role |-> role, content |-> content]

\* processMessage without the push of the client's message.
processMessage_NoClientEntry(row, message) ==
  LET context == Context(row)
      result == stepResult(context, message)
      history == context.conversationHistory
                   \o <<Entry("assistant", result.response)>>
      after == [context EXCEPT !.collectedData = result.collectedData,
                               !.conversationHistory = history]
      updates == [current_step |-> result.nextStep,
                  collected_data |-> after.collectedData,
                  conversation_history |-> history]
  IN [updates |-> updates,
      row |-> updateSession(row, updates),
      response |-> [status |-> 200,
                    response |-> result.response,
                    nextStep |-> result.nextStep,
                    shouldCollectMore |-> needsMoreData(after),
                    bookingAvailable |-> canOfferBooking(after)]]

\* processMessage: the context after the handler ran (context.currentStep
\* is not assigned), the columns written, the row after the write when no
\* other write came in between, and the response returned.
processMessage(row, message) ==
  LET context == Context(row)
      result == stepResult(context, message)
      history == context.conversationHistory
                   \o <<Entry("user", message),
                        Entry("assistant", result.response)>>
      after == [context EXCEPT !.collectedData = result.collectedData,
                               !.conversationHistory = history]
      updates == [current_step |-> result.nextStep,
                  collected_data |-> after.collectedData,
                  conversation_history |-> history]
  IN [updates |-> updates,
      row |-> updateSession(row, updates),
      response |-> [status |-> 200,
                    response |-> result.response,
                    nextStep |-> result.nextStep,
                    shouldCollectMore |-> needsMoreData(after),
                    bookingAvailable |-> canOfferBooking(after)]]

getCurrentFieldLabel(context) ==
  LET missing == { i \in 1..Len(context.coreFields) :
                     Falsy(context.collectedData, context.coreFields[i].id) }
  IN IF missing = {} THEN "information"
     ELSE ToLowerCase(context.coreFields[CHOOSE i \in missing :
                                           \A j \in missing : i <= j].label)

generateContextualResponse(context, message) ==
  CASE context.currentStep = "collecting" ->
         Reply("aboutThat", getCurrentFieldLabel(context))
    [] context.currentStep = "confirming" -> Reply("makeSure", "")
    [] context.currentStep = "booking" -> Reply("regardingAppointment", "")
    [] OTHER -> Reply("backOnTrack", "")

\* The interruption branch without the increment of the counter.
handleInterruption_NoIncrement(row, message) ==
  LET context == [Context(row) EXCEPT !.interruptionCount = @]
      updates == [interruption_count |-> context.interruptionCount]
  IN [updates |-> updates,
      row |-> updateSession(row, updates),
      response |-> [status |-> 200,
                    response |-> [generateContextualResponse(context, message)
                                    EXCEPT !.prefix = "INTERRUPTION_RESPONSES"],
                    nextStep |-> context.currentStep,
                    shouldCollectMore |-> needsMoreData(context),
                    bookingAvailable |-> canOfferBooking(context)]]

\* The interruption branch running the field extractor on the message.
handleInterruption_Extracts(row, message) ==
  LET context == [Context(row) EXCEPT !.interruptionCount = @ + 1]
      updates == [interruption_count |-> context.interruptionCount,
                  collected_data |-> extractAndStoreData(context, message)]
  IN [updates |-> updates,
      row |-> updateSession(row, updates),
      response |-> [status |-> 200,
                    response |-> [generateContextualResponse(context, message)
                                    EXCEPT !.prefix = "INTERRUPTION_RESPONSES"],
                    nextStep |-> context.currentStep,
                    shouldCollectMore |-> needsMoreData(context),
                    bookingAvailable |-> canOfferBooking(context)]]

\* The interruption branch of serve.
handleInterruption(row, message) ==
  LET context == [Context(row) EXCEPT !.interruptionCount = @ + 1]
      updates == [interruption_count |-> context.interruptionCount]
  IN [updates |-> updates,
      row |-> updateSession(row, updates),
      response |-> [status |-> 200,
                    response |-> [generateContextualResponse(context, message)
                                    EXCEPT !.prefix = "INTERRUPTION_RESPONSES"],
                    nextStep |-> context.currentStep,
                    shouldCollectMore |-> needsMoreData(context),
                    bookingAvailable |-> canOfferBooking(context)]]

(***************************************************************************)
(* State machine                                                           *)
(***************************************************************************)
\* The row as created at first contact.
NewSession(config) ==
  [current_step |-> "greeting",
   collected_data |-> EmptyData,
   core_fields |-> config.core,
   additional_questions |-> config.questions,
   interruption_count |-> 0,
   conversation_history |-> <<>>]

NoResponse ==
  [status |-> 0, response |-> Reply("", ""), nextStep |-> "",
   shouldCollectMore |-> FALSE, bookingAvailable |-> FALSE]

Requests == [message : Corpus, isInterruption : BOOLEAN]

Slots == 1..MaxInFlight

\* A slot that holds no request.
Idle ==
  [busy |-> FALSE, row |-> NewSession([core |-> <<>>, questions |-> <<>>]),
   message |-> EmptyString, isInterruption |-> FALSE]

(***************************************************************************)
(* The retry wrappers of the calling layer                                 *)
(***************************************************************************)
SERVICE_CONFIG_MAX_RETRIES == 3

SERVICE_CONFIG_RETRY_DELAY == 1000

maxRetries == 3

retryDelay == 1000

MAX_RETRIES == 3

Wrappers == {"retryWithBackoff", "makeRequest", "submitWithRetry"}

\* A call of a wrapper: where it stands (idle, calling: about to invoke the
\* operation, waiting: in the setTimeout of the backoff, returned, failed),
\* its loop variable (attempt, retryCount), the invocations of the
\* operation so far and the delay of the last backoff.
NotCalled == [pc |-> "idle", attempt |-> 0, invocations |-> 0, delay |-> 0]

\* What an invocation of the operation can end with.  noSession: getSession
\* yields no session and fetch is not reached (makeRequest only).
Outcomes(wrapper) ==
  IF wrapper = "makeRequest" THEN {"ok", "failed", "noSession"}
  ELSE {"ok", "failed"}

\* The first value of the loop variable.
FirstAttempt(wrapper) == IF wrapper = "retryWithBackoff" THEN 1 ELSE 0

\* retryWithBackoff: one pass of the body of the for loop.
retryWithBackoff(call, outcome) ==
  IF outcome = "ok"
  THEN [call EXCEPT !.pc = "returned", !.invocations = @ + 1]
  ELSE IF call.attempt = SERVICE_CONFIG_MAX_RETRIES
  THEN [call EXCEPT !.pc = "failed", !.invocations = @ + 1]
  ELSE [call EXCEPT !.pc = "waiting", !.invocations = @ + 1,
                    !.delay = SERVICE_CONFIG_RETRY_DELAY * 2 ^ (call.attempt - 1)]

\* FormSubmissionService.makeRequest: one activation, up to the recursive
\* call.
makeRequest(call, outcome) ==
  IF outcome = "noSession"
  THEN [call EXCEPT !.pc = "failed"]
  ELSE IF outcome = "ok"
  THEN [call EXCEPT !.pc = "returned", !.invocations = @ + 1]
  ELSE IF call.attempt < maxRetries
  THEN [call EXCEPT !.pc = "waiting", !.invocations = @ + 1,
                    !.delay = retryDelay * (call.attempt + 1)]
  ELSE [call EXCEPT !.pc = "failed", !.invocations = @ + 1]

\* submitWithRetry: one pass of the body of the for loop.
submitWithRetry(call, outcome) ==
  IF outcome = "ok"
  THEN [call EXCEPT !.pc = "returned", !.invocations = @ + 1]
  ELSE IF call.attempt = MAX_RETRIES
  THEN [call EXCEPT !.pc = "failed", !.invocations = @ + 1]
  ELSE [call EXCEPT !.pc = "waiting", !.invocations = @ + 1,
                    !.delay = 2 ^ call.attempt * 1000]

Init ==
  /\ session \in { NewSession(config) : config \in Configs }
  /\ req = [message |-> EmptyString, isInterruption |-> FALSE]
  /\ resp = NoResponse
  /\ served = 0
  /\ inflight = [slot \in Slots |-> Idle]
  /\ completed = <<>>
  /\ retry = [wrapper \in Wrappers |-> NotCalled]

\* serve, for a request that is not flagged as an interruption.
ServeMessage(message) ==
  /\ served < MaxRequests
  /\ LET out == processMessage(session, message)
     IN /\ session' = out.row
        /\ resp' = out.response
  /\ req' = [message |-> message, isInterruption |-> FALSE]
  /\ served' = served + 1
  /\ UNCHANGED <<inflight, completed, retry>>

\* serve, for a request flagged isInterruption.
ServeInterruption(message) ==
  /\ served < MaxRequests
  /\ LET out == handleInterruption(session, message)
     IN /\ session' = out.row
        /\ resp' = out.response
  /\ req' = [message |-> message, isInterruption |-> TRUE]
  /\ served' = served + 1
  /\ UNCHANGED <<inflight, completed, retry>>

Next ==
  \E message \in Corpus :
    \/ ServeMessage(message)
    \/ ServeInterruption(message)

\* serve up to the await of the select: the request holds the row it read.
ReadSession(slot, request) ==
  /\ served < MaxOverlappingRequests
  /\ ~inflight[slot].busy
  /\ inflight' = [inflight EXCEPT ![slot] =
                    [busy |-> TRUE, row |-> session,
                     message |-> request.message,
                     isInterruption |-> request.isInterruption]]
  /\ served' = served + 1
  /\ UNCHANGED <<session, req, resp, completed, retry>>

\* serve from the row read to the response: the handler runs on the row the
\* request read and updateSession overwrites its columns in the row as it
\* is now.
WriteSession(slot) ==
  /\ inflight[slot].busy
  /\ LET held == inflight[slot]
         out == IF held.isInterruption
                THEN handleInterruption(held.row, held.message)
                ELSE processMessage(held.row, held.message)
     IN /\ session' = updateSession(session, out.updates)
        /\ resp' = out.response
        /\ req' = [message |-> held.message,
                   isInterruption |-> held.isInterruption]
        /\ completed' = Append(completed, req')
  /\ inflight' = [inflight EXCEPT ![slot] = Idle]
  /\ UNCHANGED <<served, retry>>

NextConcurrent ==
  \E slot \in Slots :
    \/ \E request \in Requests : ReadSession(slot, request)
    \/ WriteSession(slot)

Spec == Init /\ [][Next]_vars

SpecConcurrent == Init /\ [][NextConcurrent]_vars

(***************************************************************************)
(* The handler as a whole: lookup of the session, payloads with keys       *)
(* missing, outcome of the update                                          *)
(***************************************************************************)
\* Requests served in one behaviour, and messages the session has handled
\* before the behaviour starts.
MaxServiceRequests == 3

MaxPriorMessages == 5

\* The session_id of the row.
StoredSessionId == "session-1"

\* payload.sessionId: the id of the row, another id, and the text the filter
\* eq('session_id', undefined) is built with when the key is missing.
SessionIds == {StoredSessionId, "session-2", "undefined"}

\* payload.message when the key is missing (no string splits into no piece).
Undefined == <<>>

Payloads ==
  [sessionId : SessionIds, message : {Undefined, <<"sure">>},
   isInterruption : BOOLEAN]

\* The update of call_sessions: the row is written; the row is not written
\* and the promise resolves with {error}; the row is not written and the
\* promise rejects.
WriteOutcomes == {"written", "error", "rejected"}

NotFound == [status |-> 404, error |-> "Session not found"]

InternalError == [status |-> 500, error |-> "Internal server error"]

\* select('*').eq('session_id', sessionId).single() that returns the row for
\* every id.
selectSession_AnyId(row, sessionId) == <<row>>

\* select('*').eq('session_id', sessionId).single(): the row, or nothing.
selectSession(row, sessionId) ==
  IF sessionId = StoredSessionId THEN <<row>> ELSE <<>>

\* The handler of the step calls a method of message (toLowerCase, match).
readsMessage(context) ==
  \/ context.currentStep \in {"confirming", "booking"}
  \/ /\ context.currentStep = "collecting"
     /\ \E i \in 1..Len(context.coreFields) :
          \/ Falsy(context.collectedData, context.coreFields[i].id)
          \/ Trim(context.collectedData[context.coreFields[i].id]) = EmptyString

\* serve: the row after the request, the response, and whether updateSession
\* was called.
serve(row, payload, write) ==
  LET found == selectSession(row, payload.sessionId)
  IN IF found = <<>>
     THEN [row |-> row, response |-> NotFound, updated |-> FALSE]
     ELSE IF /\ ~payload.isInterruption
             /\ payload.message = Undefined
             /\ readsMessage(Context(found[1]))
     THEN [row |-> row, response |-> InternalError, updated |-> FALSE]
     ELSE LET out == IF payload.isInterruption
                     THEN handleInterruption(found[1], payload.message)
                     ELSE processMessage(found[1], payload.message)
          IN [row |-> IF write = "written"
                      THEN updateSession(row, out.updates) ELSE row,
              response |-> IF write = "rejected"
                           THEN InternalError ELSE out.response,
              updated |-> TRUE]

\* The row after the messages were handled one after the other.
RECURSIVE Handle(_, _)
Handle(row, messages) ==
  IF messages = <<>> THEN row
  ELSE Handle(processMessage(row, Head(messages)).row, Tail(messages))

\* The session has handled up to MaxPriorMessages confirmations.
InitService ==
  /\ session \in
       { Handle(NewSession(config),
                [i \in 1..n |-> <<"Yes,", "that's", "correct">>]) :
           config \in Configs, n \in 0..MaxPriorMessages }
  /\ req = [sessionId |-> StoredSessionId, message |-> EmptyString,
            isInterruption |-> FALSE]
  /\ resp = NoResponse
  /\ served = 0
  /\ inflight = [slot \in Slots |-> Idle]
  /\ completed = <<>>
  /\ retry = [wrapper \in Wrappers |-> NotCalled]

\* serve, from the request to the response; completed lists the requests
\* that called updateSession.
ServeRequest(payload, write) ==
  /\ served < MaxServiceRequests
  /\ LET out == serve(session, payload, write)
     IN /\ session' = out.row
        /\ resp' = out.response
        /\ completed' = IF out.updated THEN Append(completed, payload)
                        ELSE completed
  /\ req' = payload
  /\ served' = served + 1
  /\ UNCHANGED <<inflight, retry>>

NextService ==
  \E payload \in Payloads, write \in WriteOutcomes : ServeRequest(payload, write)

SpecService == InitService /\ [][NextService]_vars

(***************************************************************************)
(* The retry wrappers, each called once                                    *)
(***************************************************************************)
\* The wrapper is called.
Call(wrapper) ==
  /\ retry[wrapper].pc = "idle"
  /\ retry' = [retry EXCEPT ![wrapper] =
                 [@ EXCEPT !.pc = "calling", !.attempt = FirstAttempt(wrapper)]]
  /\ UNCHANGED <<session, req, resp, served, inflight, completed>>

\* The wrapper invokes the operation, which ends with outcome.
Attempt(wrapper, outcome) ==
  /\ retry[wrapper].pc = "calling"
  /\ retry' = [retry EXCEPT ![wrapper] =
                 CASE wrapper = "retryWithBackoff" -> retryWithBackoff(@, outcome)
                   [] wrapper = "makeRequest" -> makeRequest(@, outcome)
                   [] OTHER -> submitWithRetry(@, outcome)]
  /\ UNCHANGED <<session, req, resp, served, inflight, completed>>

\* The timer of the backoff fires: the loop (the recursion) goes on.
Timeout(wrapper) ==
  /\ retry[wrapper].pc = "waiting"
  /\ retry' = [retry EXCEPT ![wrapper] =
                 [@ EXCEPT !.pc = "calling", !.attempt = @ + 1]]
  /\ UNCHANGED <<session, req, resp, served, inflight, completed>>

NextRetry ==
  \E wrapper \in Wrappers :
    \/ Call(wrapper)
    \/ \E outcome \in Outcomes(wrapper) : Attempt(wrapper, outcome)
    \/ Timeout(wrapper)

SpecRetry == Init /\ [][NextRetry]_vars

(***************************************************************************)
(* Vocabulary of the properties                                            *)
(***************************************************************************)
\* This step served a request.
Handled == served' = served + 1

\* This step served a message that is no interruption, with the session in step.
MessageIn(step) ==
  Handled /\ ~req'.isInterruption /\ session.current_step = step

StepIndex(step) == CHOOSE i \in 1..Len(Steps) : Steps[i] = step

\* The key has a non-empty value.
HasValue(data, key) == key \in DOMAIN data /\ data[key] # EmptyString

CoreIds(row) == { row.core_fields[i].id : i \in 1..Len(row.core_fields) }

QuestionIds(row) ==
  { row.additional_questions[i].id : i \in 1..Len(row.additional_questions) }

\* The positions of the core fields, and of the questions, without a value.
OpenCore(row) ==
  { i \in 1..Len(row.core_fields) :
      ~HasValue(row.collected_data, row.core_fields[i].id) }

OpenQuestions(row) ==
  { i \in 1..Len(row.additional_questions) :
      ~HasValue(row.collected_data, row.additional_questions[i].id) }

AllCollected(row) == OpenCore(row) = {} /\ OpenQuestions(row) = {}

First(positions) == CHOOSE i \in positions : \A j \in positions : i <= j

\* The keys whose value differs between two collected_data (a key that is
\* added or removed differs).
ChangedKeys(before, after) ==
  { k \in DOMAIN before \cup DOMAIN after :
      \/ k \notin DOMAIN before
      \/ k \notin DOMAIN after
      \/ before[k] # after[k] }

\* The words of a message: its pieces other than the empty ones between,
\* before and after blanks.
WordCount(message) == Cardinality({ i \in 1..Len(message) : message[i] # "" })

(***************************************************************************)
(* Properties                                                              *)
(***************************************************************************)
\* C1: over any sequence of served requests, current_step stays or moves one
\* step forward along greeting, collecting, confirming, booking, complete; the
\* only backward move is confirming -> collecting, taken only by a message
\* (no interruption) that holds none of "yes", "correct", "right".
C1_StepsMoveForward ==
  [][ LET from == StepIndex(session.current_step)
          to == StepIndex(session'.current_step)
      IN \/ to = from
         \/ to = from + 1
         \/ /\ session.current_step = "confirming"
            /\ session'.current_step = "collecting"
            /\ ~req'.isInterruption
            /\ ~Includes(req'.message, "yes")
            /\ ~Includes(req'.message, "correct")
            /\ ~Includes(req'.message, "right") ]_vars

\* C1 witness: a dispute in confirming has sent the session back to collecting.
C1_Witness ==
  /\ session.current_step = "collecting"
  /\ resp.response.template = "askCorrection"
  /\ ~req.isInterruption

\* C2: in collecting with every core field and every additional question
\* holding a non-empty value, the next message that is no interruption
\* returns and persists nextStep = confirming.
C2_AllCollectedAdvances ==
  [][ MessageIn("collecting") /\ AllCollected(session)
        => /\ resp'.nextStep = "confirming"
           /\ session'.current_step = "confirming" ]_vars

\* C2 witness: a session with a filled core field was moved from collecting
\* to confirming.
C2_Witness ==
  /\ session.current_step = "confirming"
  /\ resp.response.template = "confirmSummary"
  /\ Len(session.core_fields) > 0
  /\ AllCollected(session)

\* C3: a message handled in collecting never yields nextStep = confirming
\* while a core field or an additional question has no non-empty value
\* (before or after the call): the step stays collecting.
C3_NoConfirmingWhileMissing ==
  [][ MessageIn("collecting") /\ (~AllCollected(session) \/ ~AllCollected(session'))
        => /\ resp'.nextStep = "collecting"
           /\ session'.current_step = "collecting" ]_vars

\* C3 witness: every core field is filled, a question is open, and the
\* message handled in collecting left the session in collecting.
C3_Witness ==
  /\ session.current_step = "collecting"
  /\ resp.response.template = "askQuestion"
  /\ OpenCore(session) = {}
  /\ OpenQuestions(session) # {}

\* C4: additional questions are collected: when the reply has asked the first
\* open question (all core fields filled) and the client answers with a short
\* message that is not blank, the answer is stored under that question's id.
C4_QuestionAnswerStored ==
  [][ /\ MessageIn("collecting")
      /\ resp.response.template = "askQuestion"
      /\ OpenCore(session) = {}
      /\ OpenQuestions(session) # {}
      /\ Len(req'.message) <= ShortMessageWords
      /\ Trim(req'.message) # EmptyString
      => LET q == session.additional_questions[First(OpenQuestions(session))]
         IN /\ HasValue(session'.collected_data, q.id)
            /\ session'.collected_data[q.id] = Trim(req'.message) ]_vars

\* C5: in collecting, when the message fills a core field and a core field is
\* still unfilled after the extraction, the reply asks for the first core
\* field still unfilled after the extraction, and nextStep = collecting.
C5_AsksNextUnfilledField ==
  [][ /\ MessageIn("collecting")
      /\ OpenCore(session') # OpenCore(session)
      /\ OpenCore(session') # {}
      => /\ resp'.response =
              Reply("askField",
                    ToLowerCase(session.core_fields[First(OpenCore(session'))].label))
         /\ resp'.nextStep = "collecting" ]_vars

C7_AtMostOneKeyChanges ==
  [][ Handled
        => Cardinality(ChangedKeys(session.collected_data,
                                   session'.collected_data)) <= 1 ]_vars

\* C8: every key of collected_data is the id of a configured core field or
\* of a configured additional question.
C8_KeysAreConfigured ==
  DOMAIN session.collected_data \subseteq CoreIds(session) \cup QuestionIds(session)

\* C9: a non-empty value stored under email or phone is never overwritten
\* by a later message.
C9_EmailPhoneKept ==
  [][ \A key \in {"email", "phone"} :
        HasValue(session.collected_data, key)
          => /\ key \in DOMAIN session'.collected_data
             /\ session'.collected_data[key] = session.collected_data[key] ]_vars

\* C10: when extraction runs on a message with neither an email-shaped nor a
\* phone-shaped token, a message of at most 4 words is stored, trimmed, under
\* the first core field without a value and no other key changes; a message
\* of more than 4 words leaves collected_data unchanged.
C10_ShortMessageStored ==
  [][ /\ MessageIn("collecting")
      /\ OpenCore(session) # {}
      /\ EmailMatch(req'.message) = NoMatch
      /\ PhoneMatch(req'.message) = NoMatch
      => IF WordCount(req'.message) <= ShortMessageWords
         THEN session'.collected_data =
                Put(session.collected_data,
                    session.core_fields[First(OpenCore(session))].id,
                    Trim(req'.message))
         ELSE session'.collected_data = session.collected_data ]_vars

\* C11: handling an interruption leaves current_step as it was (and returns
\* it as nextStep), raises the persisted interruption_count by exactly 1, and
\* the reply opens with a phrase of INTERRUPTION_RESPONSES.
C11_InterruptionKeepsStep ==
  [][ Handled /\ req'.isInterruption
        => /\ session'.current_step = session.current_step
           /\ resp'.nextStep = session.current_step
           /\ session'.interruption_count = session.interruption_count + 1
           /\ resp'.response.prefix = "INTERRUPTION_RESPONSES" ]_vars

\* C11 witness: an interruption was handled in collecting (Scenario E).
C11_Witness ==
  /\ req.isInterruption
  /\ session.current_step = "collecting"
  /\ session.interruption_count = 1
  /\ resp.nextStep = "collecting"

\* C12: handling an interruption leaves collected_data unchanged, whatever
\* the text of the message.
C12_InterruptionKeepsData ==
  [][ Handled /\ req'.isInterruption
        => session'.collected_data = session.collected_data ]_vars

\* C12 witness: an interruption with an email-shaped and a phone-shaped token
\* was handled in collecting while a core field was open, and nothing was
\* stored.
C12_Witness ==
  /\ req.isInterruption
  /\ EmailMatch(req.message) # NoMatch
  /\ PhoneMatch(req.message) # NoMatch
  /\ session.current_step = "collecting"
  /\ OpenCore(session) # {}
  /\ session.collected_data = EmptyData

\* C13: the persisted interruption_count never decreases, over every
\* interleaving of the reads and writes of overlapping requests.
C13_CountNeverDecreases ==
  [][ session'.interruption_count >= session.interruption_count ]_vars

\* The row after the requests were served one after the other.
RECURSIVE Replay(_, _)
Replay(row, requests) ==
  IF requests = <<>> THEN row
  ELSE Replay(IF Head(requests).isInterruption
              THEN handleInterruption(row, Head(requests).message).row
              ELSE processMessage(row, Head(requests).message).row,
              Tail(requests))

Orders(n) ==
  { order \in [1..n -> 1..n] : \A i, j \in 1..n : order[i] = order[j] => i = j }

\* C14: overlapping requests are serialized: once every request has written,
\* the row is what serving the requests one after the other, in some order,
\* leaves.
C14_OverlappingRequestsSerialized ==
  (completed # <<>> /\ \A slot \in Slots : ~inflight[slot].busy)
    => \E order \in Orders(Len(completed)) :
         session =
           Replay(NewSession([core |-> session.core_fields,
                              questions |-> session.additional_questions]),
                  [i \in 1..Len(completed) |-> completed[order[i]]])

\* C15: every message that is no interruption appends to
\* conversation_history the client's entry and then the agent's entry with
\* the reply, in every step; no request removes or alters an earlier entry.
C15_HistoryAppended ==
  [][ Handled
        => LET before == session.conversation_history
               after == session'.conversation_history
           IN IF req'.isInterruption THEN after = before
              ELSE /\ Len(after) = Len(before) + 2
                   /\ SubSeq(after, 1, Len(before)) = before
                   /\ after[Len(before) + 1].role = "user"
                   /\ after[Len(before) + 1].content = req'.message
                   /\ after[Len(before) + 2].role = "assistant"
                   /\ after[Len(before) + 2].content = resp'.response ]_vars

\* C15 witness: a message handled in complete, where no transition occurs,
\* has added its two entries.
C15_Witness ==
  /\ ~req.isInterruption
  /\ session.current_step = "complete"
  /\ resp.response.template = "notSure"
  /\ Len(session.conversation_history) = 2 * served

\* C16: needsMoreData is true exactly when a configured core field or
\* additional question has no non-empty value; so in collecting with a field
\* unfilled needsMoreData is true and canOfferBooking is false.
C16_NeedsMoreData ==
  /\ needsMoreData(Context(session)) <=> ~AllCollected(session)
  /\ session.current_step = "collecting" /\ ~AllCollected(session)
       => /\ needsMoreData(Context(session))
          /\ ~canOfferBooking(Context(session))

\* C16 witness: in collecting every core field is filled and a question is
\* open.
C16_Witness ==
  /\ session.current_step = "collecting"
  /\ Len(session.core_fields) > 0
  /\ OpenCore(session) = {}
  /\ OpenQuestions(session) # {}
  /\ needsMoreData(Context(session))

\* C17: canOfferBooking is true if and only if needsMoreData is false and
\* current_step is not complete.
C17_CanOfferBooking ==
  canOfferBooking(Context(session))
    <=> (~needsMoreData(Context(session)) /\ session.current_step # "complete")

\* C17 witness: a complete session with everything collected: no more data
\* is needed and booking is not offered.
C17_Witness ==
  /\ session.current_step = "complete"
  /\ Len(session.core_fields) > 0
  /\ ~needsMoreData(Context(session))
  /\ ~canOfferBooking(Context(session))

\* C18: in confirming a message that holds "yes", "correct" or "right" moves
\* the session to booking and any other message moves it back to collecting;
\* collected_data stays as it was.
C18_Confirmation ==
  [][ MessageIn("confirming")
        => LET affirmative == \/ Includes(req'.message, "yes")
                              \/ Includes(req'.message, "correct")
                              \/ Includes(req'.message, "right")
               to == IF affirmative THEN "booking" ELSE "collecting"
           IN /\ session'.current_step = to
              /\ resp'.nextStep = to
              /\ session'.collected_data = session.collected_data ]_vars

\* C18 witness: a message with "right" and without "yes" has moved a session
\* that holds data from confirming to booking.
C18_Witness ==
  /\ session.current_step = "booking"
  /\ resp.response.template = "offerBooking"
  /\ Includes(req.message, "right") /\ ~Includes(req.message, "yes")
  /\ session.collected_data # EmptyData

\* C19: in booking every message moves the session to complete: one that
\* holds "yes", "sure" or "book" gets the follow-up reply, any other the
\* polite close.
C19_BookingCompletes ==
  [][ MessageIn("booking")
        => LET wantsBooking == \/ Includes(req'.message, "yes")
                               \/ Includes(req'.message, "sure")
                               \/ Includes(req'.message, "book")
           IN /\ session'.current_step = "complete"
              /\ resp'.nextStep = "complete"
              /\ resp'.response = IF wantsBooking
                                  THEN Reply("bookingFollowUp", "")
                                  ELSE Reply("politeClose", "") ]_vars

\* C19 witness: a message without "yes", "sure", "book" has closed the session
\* politely (Scenario D).
C19_Witness ==
  /\ session.current_step = "complete"
  /\ resp.response.template = "politeClose"
  /\ ~req.isInterruption

\* C20: complete is terminal: once current_step is complete, every later
\* request (message or interruption) leaves it complete and leaves
\* collected_data unchanged.
C20_CompleteIsTerminal ==
  [][ session.current_step = "complete"
        => /\ session'.current_step = "complete"
           /\ session'.collected_data = session.collected_data ]_vars

\* C20 witness: a message was handled in complete.
C20_Witness ==
  /\ session.current_step = "complete"
  /\ resp.response.template = "notSure"
  /\ resp.nextStep = "complete"

\* C21: in greeting every message that is no interruption moves the session
\* to collecting, gets the greeting template as reply and leaves
\* collected_data unchanged.
C21_GreetingAdvances ==
  [][ MessageIn("greeting")
        => /\ session'.current_step = "collecting"
           /\ resp'.nextStep = "collecting"
           /\ resp'.response = generateGreeting
           /\ session'.collected_data = session.collected_data ]_vars

\* C21 witness: a greeting message with an email and a phone number, sent to
\* a session that collects both, was answered with the greeting and nothing
\* was stored.
C21_Witness ==
  /\ session.current_step = "collecting"
  /\ resp.response = generateGreeting
  /\ ~req.isInterruption
  /\ EmailMatch(req.message) # NoMatch
  /\ PhoneMatch(req.message) # NoMatch
  /\ Len(session.core_fields) > 1
  /\ session.collected_data = EmptyData

\* C22: an empty or whitespace-only message is a no-op in every step: it
\* leaves current_step and collected_data (keys and values) unchanged.
C22_BlankMessageIsNoOp ==
  [][ Handled /\ ~req'.isInterruption /\ Trim(req'.message) = EmptyString
        => /\ session'.current_step = session.current_step
           /\ session'.collected_data = session.collected_data ]_vars

\* C23: a request whose sessionId matches no stored session gets the
\* not-found error (status 404, body {error}) and calls no update, flagged as
\* an interruption or not.
C23_UnknownSessionNotFound ==
  [][ Handled /\ req'.sessionId # StoredSessionId
        => /\ resp' = NotFound
           /\ session' = session
           /\ completed' = completed ]_vars

\* C23 witness: an interruption for an unknown session was answered with 404
\* after a request for the stored session had been served and written.
C23_Witness ==
  /\ resp = NotFound
  /\ req.isInterruption
  /\ req.sessionId = "session-2"
  /\ Len(completed) = 1

\* C24: a request whose payload lacks sessionId or message mutates no state:
\* it leaves the stored row (current_step, collected_data,
\* conversation_history, interruption_count) as it was.
C24_MissingKeyRejected ==
  [][ Handled /\ (req'.message = Undefined \/ req'.sessionId = "undefined")
        => session' = session ]_vars

\* C25: a success response implies that what the call computed was
\* persisted: for a message the new current_step and the two history entries
\* with the reply, for an interruption the raised interruption_count.
C25_SuccessImpliesPersisted ==
  [][ Handled /\ resp'.status = 200
        => IF req'.isInterruption
           THEN session'.interruption_count = session.interruption_count + 1
           ELSE /\ session'.current_step = resp'.nextStep
                /\ Len(session'.conversation_history)
                     = Len(session.conversation_history) + 2
                /\ session'.conversation_history[Len(session'.conversation_history)]
                     = Entry("assistant", resp'.response) ]_vars

\* C26: handling an interruption appends the combined reply to the persisted
\* conversation_history.
C26_InterruptionReplyInHistory ==
  [][ Handled /\ req'.isInterruption
        => session'.conversation_history =
             Append(session.conversation_history,
                    Entry("assistant", resp'.response)) ]_vars

\* C27: in every response to a message that is no interruption,
\* bookingAvailable is canOfferBooking of the session as the call persisted
\* it; a response with nextStep complete has bookingAvailable false.
C27_BookingAvailableOfPersisted ==
  [][ Handled /\ ~req'.isInterruption
        => /\ resp'.bookingAvailable = canOfferBooking(Context(session'))
           /\ resp'.nextStep = "complete" => ~resp'.bookingAvailable ]_vars

\* C28: a response to a message processed in collecting never has
\* shouldCollectMore false together with nextStep collecting.
C28_FlagsAgreeWithStep ==
  [][ MessageIn("collecting")
        => ~(~resp'.shouldCollectMore /\ resp'.nextStep = "collecting") ]_vars

\* C29: once every core field has a non-empty value no request changes
\* collected_data; a message sent in collecting with everything filled (as
\* after a dispute in confirming) returns the session to confirming.
C29_NoCorrection ==
  [][ /\ Handled /\ OpenCore(session) = {}
        => session'.collected_data = session.collected_data
      /\ MessageIn("collecting") /\ AllCollected(session)
        => /\ session'.current_step = "confirming"
           /\ resp'.nextStep = "confirming" ]_vars

\* C29 witness: with data collected, a dispute in confirming sent the session
\* to collecting and the next message returned it to confirming.
C29_Witness ==
  /\ session.current_step = "confirming"
  /\ ~req.isInterruption
  /\ session.collected_data # EmptyData
  /\ Len(session.conversation_history) = 10
  /\ session.conversation_history[8].content = Reply("askCorrection", "")
  /\ resp.response = Reply("confirmSummary", "")

\* C30: each retry wrapper invokes the operation at most 3 times in a call.
C30_AtMostThreeInvocations ==
  \A wrapper \in Wrappers : retry[wrapper].invocations <= 3

====
